---- MODULE Spec2Model ----
(***************************************************************************)
(* Model of the seeded generator of prelude.js (class RNG) and of the      *)
(* samplers built on it.                                                   *)
(*                                                                         *)
(* Numbers.  A JavaScript number n is the record [hi, lo, fr] with         *)
(*     n = hi * 2^16 + lo + fr / 2,   lo \in 0 .. 2^16 - 1,  fr \in {0,1}, *)
(* hi any integer (negative for negative numbers).  A 32-bit pattern is    *)
(* the pair <<h, l>> of its 16-bit halves.  The value uniform() returns is *)
(* kept as its numerator: the number that the code divides by 4294967296.  *)
(***************************************************************************)
EXTENDS Integers, Sequences, FiniteSets, TLC

Radix == 2^16
Half == 2^15

Num(hi, lo, fr) == [hi |-> hi, lo |-> lo, fr |-> fr]

\* The integer n, |n| < 2^31, as a number.
IntNum(n) == Num(n \div Radix, n % Radix, 0)

Zero == IntNum(0)
One == IntNum(1)
SixtyOne == IntNum(61)

\* 0x6d2b79f5 = 0x6d2b * 2^16 + 0x79f5
Increment == Num(27947, 31221, 0)

\* a + b on numbers (exact: the model stays below 2^53, where doubles are exact).
NumAdd(a, b) ==
    LET f == a.fr + b.fr
        l == a.lo + b.lo + (f \div 2)
    IN  Num(a.hi + b.hi + (l \div Radix), l % Radix, f % 2)

(***************************************************************************)
(* ToInt32 / ToUint32 of ECMAScript: truncate toward zero, reduce modulo   *)
(* 2^32.  Every bitwise operator and Math.imul applies it to its operands. *)
(***************************************************************************)
Trunc(x) ==
    IF x.fr = 1 /\ x.hi < 0
    THEN Num(x.hi + ((x.lo + 1) \div Radix), (x.lo + 1) % Radix, 0)
    ELSE Num(x.hi, x.lo, 0)

\* A conversion that saturates at 2^32 - 1 where ToUint32 wraps.
ToUint32Clamped(x) ==
    IF Trunc(x).hi >= Radix THEN <<Radix - 1, Radix - 1>>
    ELSE <<Trunc(x).hi % Radix, Trunc(x).lo>>

ToUint32(x) == <<Trunc(x).hi % Radix, Trunc(x).lo>>

\* The 32-bit pattern w read as a signed (int32) and as an unsigned number.
SignedNum(w) == Num(IF w[1] >= Half THEN w[1] - Radix ELSE w[1], w[2], 0)
UnsignedNum(w) == Num(w[1], w[2], 0)

RECURSIVE Xor16(_, _)
Xor16(a, b) ==
    IF a = 0 THEN b
    ELSE IF b = 0 THEN a
    ELSE ((a + b) % 2) + 2 * Xor16(a \div 2, b \div 2)

RECURSIVE Or16(_, _)
Or16(a, b) ==
    IF a = 0 THEN b
    ELSE IF b = 0 THEN a
    ELSE (IF a % 2 = 1 \/ b % 2 = 1 THEN 1 ELSE 0) + 2 * Or16(a \div 2, b \div 2)

XorW(a, b) == <<Xor16(a[1], b[1]), Xor16(a[2], b[2])>>
OrW(a, b) == <<Or16(a[1], b[1]), Or16(a[2], b[2])>>

\* w >>> s for 0 <= s < 16.
ShrW(w, s) ==
    <<w[1] \div (2^s), (w[2] \div (2^s)) + (w[1] % (2^s)) * (2^(16 - s))>>

\* The 32-bit product of two 16-bit halves, as <<high half, low half>>; the
\* first factor is split in bytes so that no intermediate exceeds 2^31.
Mul16(x, y) ==
    LET p0 == (x % 256) * y
        p1 == (x \div 256) * y
        s  == (p1 % 256) * 256 + p0
    IN  <<(p1 \div 256) + (s \div Radix), s % Radix>>

\* Math.imul on bit patterns: the low 32 bits of the product.
ImulW(a, b) ==
    LET ll == Mul16(a[2], b[2])
        hl == Mul16(a[1], b[2])
        lh == Mul16(a[2], b[1])
    IN  <<(ll[1] + hl[2] + lh[2]) % Radix, ll[2]>>

\* The operators of the source, on numbers.
JsXor(a, b) == SignedNum(XorW(ToUint32(a), ToUint32(b)))
JsOr(a, b) == SignedNum(OrW(ToUint32(a), ToUint32(b)))
JsShr(a, s) == UnsignedNum(ShrW(ToUint32(a), s))
JsImul(a, b) == SignedNum(ImulW(ToUint32(a), ToUint32(b)))

(***************************************************************************)
(* RNG.uniform: the new state and the returned value (numerator over 2^32).*)
(***************************************************************************)
NextState(state) == NumAdd(state, Increment)

\* t = Math.imul(t ^ (t >>> 15), t | 1)
Mix1(t) == JsImul(JsXor(t, JsShr(t, 15)), JsOr(t, One))

\* t ^= t + Math.imul(t ^ (t >>> 7), t | 61)
Mix2(t) == JsXor(t, NumAdd(t, JsImul(JsXor(t, JsShr(t, 7)), JsOr(t, SixtyOne))))

\* Mix3 without the final >>> 0: the int32 result, negative when bit 31 is set.
Mix3Signed(t) == JsXor(t, JsShr(t, 14))

\* (t ^ (t >>> 14)) >>> 0
Mix3(t) == JsShr(JsXor(t, JsShr(t, 14)), 0)

uniform(state) ==
    LET s == NextState(state)
    IN  [state |-> s, value |-> Mix3(Mix2(Mix1(s)))]

(***************************************************************************)
(* RNG.constructor: the seed argument is stored verbatim; with no argument *)
(* the state is Math.random() * 0xffffffff, here the value `entropy`.      *)
(***************************************************************************)
NoSeed == [none |-> TRUE]

\* -n on numbers.
NumNeg(n) ==
    LET halves == (4 * Radix - (2 * n.lo + n.fr)) % (2 * Radix)
    IN  Num(-n.hi - (IF halves = 0 THEN 0 ELSE 1), halves \div 2, halves % 2)

\* A constructor that stores Math.abs(seed).
ConstructAbs(seed, entropy) ==
    IF seed = NoSeed THEN entropy ELSE IF seed.hi < 0 THEN NumNeg(seed) ELSE seed

\* A constructor that stores seed >>> 0.
ConstructUint32(seed, entropy) ==
    IF seed = NoSeed THEN entropy ELSE UnsignedNum(ToUint32(seed))

\* A constructor that ignores its argument.
ConstructUnseeded(seed, entropy) == entropy

Construct(seed, entropy) == IF seed = NoSeed THEN entropy ELSE seed

(***************************************************************************)
(* RNG.uniformInt: Math.floor(this.uniform() * (max - min) + min), for     *)
(* |max - min| < 2^15 and |min| < 2^30.  value is the numerator of the     *)
(* draw.  The product value/2^32 * (max - min) is exact in a double; the   *)
(* sum with min is rounded to the 53 significant bits of a double (round   *)
(* to nearest, ties to even) before Math.floor is applied.                 *)
(***************************************************************************)
\* value * n = whole * 2^32 + frac, frac a 32-bit pattern.
ScaleBy(value, n) ==
    LET b == value.lo * n
        a == value.hi * n + (b \div Radix)
    IN  [whole |-> a \div Radix, frac |-> <<a % Radix, b % Radix>>]

RECURSIVE Log2(_)
Log2(n) == IF n <= 1 THEN 0 ELSE 1 + Log2(n \div 2)

\* Math.floor of the double nearest to m + frac / 2^32.
FloorOfDouble(m, frac) ==
    LET mag == IF m >= 0 THEN m ELSE -(m + 1)
        bits == 52 - Log2(mag)
    IN  IF bits >= 32 THEN m
        ELSE IF frac[1] = Radix - 1 /\ frac[2] >= Radix - 2^(31 - bits)
             THEN m + 1
             ELSE m

\* uniformInt with Math.ceil for Math.floor (the draw is never whole here).
uniformIntCeil(value, min, max) ==
    LET p == ScaleBy(value, max - min)
    IN  FloorOfDouble(min + p.whole, p.frac) + 1

\* uniformInt with an empty or reversed range clamped to min.
uniformIntClamped(value, min, max) ==
    LET p == ScaleBy(value, IF max > min THEN max - min ELSE 0)
    IN  FloorOfDouble(min + p.whole, p.frac)

uniformInt(value, min, max) ==
    LET p == ScaleBy(value, max - min)
    IN  FloorOfDouble(min + p.whole, p.frac)

(***************************************************************************)
(* RNG.choice: array[this.uniformInt(0, array.length)]; an index outside   *)
(* the array reads undefined.                                              *)
(***************************************************************************)
Undefined == "undefined"

\* An index outside the array raising a RangeError instead
ArrayGetChecked(array, i) == IF i \in 0 .. Len(array) - 1 THEN array[i + 1] ELSE "RangeError"

ArrayGet(array, i) == IF i \in 0 .. Len(array) - 1 THEN array[i + 1] ELSE Undefined

choice(value, array) == ArrayGet(array, uniformInt(value, 0, Len(array)))

(***************************************************************************)
(* RNG.gaussian: u = 1 - uniform(), v = uniform(),                         *)
(* z = sqrt(-2 ln u) * cos(2 pi v), return z * sd + mean.  z is kept as    *)
(* the pair of numerators it is computed from; it is finite when u > 0.    *)
(***************************************************************************)
\* u = this.uniform(), without the 1 -
ComplementNone(value) == value

\* 1 - value / 2^32, as a numerator over 2^32.
Complement(value) ==
    LET l == 0 - value.lo
    IN  Num(Radix - value.hi + (l \div Radix), l % Radix, 0)

\* A gaussian that draws once and takes v from the same draw.
gaussianOneDraw(st, mean, sd) ==
    LET d1 == uniform(st)
        u  == Complement(d1.value)
    IN  [state |-> d1.state,
         value |-> IF sd = 0 /\ u # Zero
                   THEN [mean |-> mean, sd |-> 0, z |-> <<>>]
                   ELSE [mean |-> mean, sd |-> sd, z |-> <<u, d1.value>>]]

gaussian(st, mean, sd) ==
    LET d1 == uniform(st)
        d2 == uniform(d1.state)
        u  == Complement(d1.value)
        v  == d2.value
    IN  [state |-> d2.state,
         value |-> IF sd = 0 /\ u # Zero
                   THEN [mean |-> mean, sd |-> 0, z |-> <<>>]
                   ELSE [mean |-> mean, sd |-> sd, z |-> <<u, v>>]]

(***************************************************************************)
(* RNG.poisson.  lambda is given in units of ln 2, so that                 *)
(* L = Math.exp(-lambda) = 2^(-lambda) is a power of two.  After k draws   *)
(* p = P / 2^(32 k), P the product of the numerators drawn, kept exactly   *)
(* as a little-endian sequence of 16-bit digits.                           *)
(***************************************************************************)
RECURSIVE BigMulDigit(_, _, _)
BigMulDigit(big, d, carry) ==
    IF big = <<>> THEN (IF carry = 0 THEN <<>> ELSE <<carry>>)
    ELSE LET m == Mul16(Head(big), d)
             s == m[2] + carry
         IN  <<s % Radix>> \o BigMulDigit(Tail(big), d, m[1] + (s \div Radix))

RECURSIVE BigAdd(_, _, _)
BigAdd(a, b, carry) ==
    IF a = <<>> /\ b = <<>> THEN (IF carry = 0 THEN <<>> ELSE <<carry>>)
    ELSE LET x == IF a = <<>> THEN 0 ELSE Head(a)
             y == IF b = <<>> THEN 0 ELSE Head(b)
             s == x + y + carry
         IN  <<s % Radix>> \o BigAdd(IF a = <<>> THEN a ELSE Tail(a),
                                     IF b = <<>> THEN b ELSE Tail(b),
                                     s \div Radix)

\* big * w for a 32-bit pattern w.
BigMul(big, w) ==
    BigAdd(BigMulDigit(big, w[2], 0), <<0>> \o BigMulDigit(big, w[1], 0), 0)

RECURSIVE BigTrim(_)
BigTrim(big) ==
    IF big # <<>> /\ big[Len(big)] = 0 THEN BigTrim(SubSeq(big, 1, Len(big) - 1))
    ELSE big

\* big > 2^m
BigAbovePow2(big, m) ==
    LET t == BigTrim(big)
        n == Len(t)
        bitlen == 16 * (n - 1) + Log2(t[n]) + 1
    IN  /\ n > 0
        /\ \/ bitlen > m + 1
           \/ /\ bitlen = m + 1
              /\ \/ t[n] # 2^(m % 16)
                 \/ \E i \in 1 .. n - 1 : t[i] # 0

\* return k - 2, and return k
PoissonResultLow(k) == k - 2
PoissonResultHigh(k) == k

\* return k - 1
PoissonResult(k) == k - 1

\* do { k++; p *= this.uniform(); } while (p > L);
RECURSIVE PoissonLoop(_, _, _, _)
PoissonLoop(st, P, k, lambda) ==
    LET d  == uniform(st)
        k2 == k + 1
        P2 == BigMul(P, ToUint32(d.value))
    IN  IF BigAbovePow2(P2, 32 * k2 - lambda)
        THEN PoissonLoop(d.state, P2, k2, lambda)
        ELSE [state |-> d.state, value |-> PoissonResult(k2)]

\* A poisson that puts the state back to what it was at the call.
poissonRestoring(st, lambda) ==
    [state |-> st, value |-> PoissonLoop(st, <<1>>, 0, lambda).value]

poisson(st, lambda) == PoissonLoop(st, <<1>>, 0, lambda)

(***************************************************************************)
(* RNG.poissonDisc.  Lengths are whole multiples of the model's length     *)
(* unit.  The angle uniform() * 2 pi is quantised to the directions of     *)
(* Dirs, whose cosine and sine are exact multiples of 1/5, and the         *)
(* distance radius + uniform() * radius to RSteps steps across             *)
(* [radius, 2 radius); radius is a multiple of 5 * RSteps, so that every   *)
(* candidate has whole coordinates at the exact distance r from its        *)
(* parent.  The initial point is rounded down to whole coordinates.        *)
(* Cell indices are computed exactly: cellSize = radius / sqrt 2.          *)
(***************************************************************************)
Null == -1

RSteps == 2

\* <<5 cos a, 5 sin a>>, counter-clockwise from a = 0
Dirs == << <<5, 0>>, <<4, 3>>, <<3, 4>>, <<0, 5>>, <<-3, 4>>, <<-4, 3>>,
           <<-5, 0>>, <<-4, -3>>, <<-3, -4>>, <<0, -5>>, <<3, -4>>, <<4, -3>> >>

ISqrt(n) == CHOOSE s \in 0 .. n : s * s <= n /\ (s + 1) * (s + 1) > n

\* Math.floor(x / cellSize) for x >= 0: floor(x * sqrt 2 / radius)
CellOf(x, radius) == ISqrt(2 * x * x) \div radius

\* Math.ceil(extent / cellSize) for extent > 0 (the quotient is irrational)
CellCount(extent, radius) == CellOf(extent, radius) + 1

\* A gridIndex with the rows gridHeight apart.
gridIndexByHeight(pd, x, y) == CellOf(x, pd.radius) + CellOf(y, pd.radius) * pd.gridHeight

gridIndex(pd, x, y) == CellOf(x, pd.radius) + CellOf(y, pd.radius) * pd.gridWidth

Max(a, b) == IF a >= b THEN a ELSE b
Min(a, b) == IF a <= b THEN a ELSE b

\* InBounds with > for >= on the upper edges.
InBoundsClosed(pd, x, y) == ~(x < 0 \/ x > pd.width \/ y < 0 \/ y > pd.height)

\* !(x < 0 || x >= width || y < 0 || y >= height)
InBounds(pd, x, y) == ~(x < 0 \/ x >= pd.width \/ y < 0 \/ y >= pd.height)

\* A search of the 3 x 3 block only.
SearchedNarrow(i, count) == Max(i - 1, 0) .. Min(i + 2, count) - 1

\* A search that stops one cell early on the upper side.
SearchedShort(i, count) == Max(i - 2, 0) .. Min(i + 2, count) - 1

\* The cells searched along one axis around cell i: Math.max(i - 2, 0) up to,
\* but not including, Math.min(i + 3, count).
Searched(i, count) == Max(i - 2, 0) .. Min(i + 3, count) - 1

\* A distance test that never fails.
TooCloseNever(pd, x, y, n) == FALSE

\* distSq < radius * radius
TooClose(pd, x, y, n) ==
    LET dx == x - n[1]
        dy == y - n[2]
    IN  dx * dx + dy * dy < pd.radius * pd.radius

isValid(pd, x, y) ==
    IF ~InBounds(pd, x, y) THEN FALSE
    ELSE LET i == CellOf(x, pd.radius)
             j == CellOf(y, pd.radius)
         IN  \A jj \in Searched(j, pd.gridHeight) : \A ii \in Searched(i, pd.gridWidth) :
                 LET neighbor == pd.grid[ii + jj * pd.gridWidth]
                 IN  neighbor # Null => ~TooClose(pd, x, y, pd.points[neighbor + 1])

\* px + r cos(angle), py + r sin(angle) for the two draws of one attempt
Candidate(pd, parent, v1, v2) ==
    LET dir == Dirs[ScaleBy(v1, Len(Dirs)).whole + 1]
        r   == pd.radius + (ScaleBy(v2, RSteps).whole * pd.radius) \div RSteps
    IN  <<parent[1] + (r \div 5) * dir[1], parent[2] + (r \div 5) * dir[2]>>

\* A Place that leaves the grid as it is.
PlaceUnrecorded(pd, pt) ==
    [pd EXCEPT !.points = Append(@, pt), !.active = Append(@, Len(pd.points))]

\* grid[gridIndex(x, y)] = idx; points.push([x, y]); active.push(idx)
Place(pd, pt) ==
    LET idx == Len(pd.points)
    IN  [pd EXCEPT !.grid = [@ EXCEPT ![gridIndex(pd, pt[1], pt[2])] = idx],
                   !.points = Append(@, pt),
                   !.active = Append(@, idx)]

\* A splice that removes nothing.
SpliceNone(seq, randomIndex) == seq

\* active.splice(randomIndex, 1)
Splice(seq, randomIndex) ==
    SubSeq(seq, 1, randomIndex) \o SubSeq(seq, randomIndex + 2, Len(seq))

\* A set-up that draws the initial point and does not place it.
PDBeginUnplaced(st, width, height, radius, k) ==
    LET gw == CellCount(width, radius)
        gh == CellCount(height, radius)
        d2 == uniform(uniform(st).state)
    IN  [state |-> d2.state,
         pd |-> [pc |-> "while", randomIndex |-> 0, n |-> 0, entry |-> st, width |-> width,
                 height |-> height, radius |-> radius, k |-> k,
                 gridWidth |-> gw, gridHeight |-> gh,
                 grid |-> [c \in 0 .. gw * gh - 1 |-> Null],
                 points |-> <<>>, active |-> <<>>]]

\* The set-up and the initial point, placed without a validity check.
PDBegin(st, width, height, radius, k) ==
    LET gw == CellCount(width, radius)
        gh == CellCount(height, radius)
        d1 == uniform(st)
        d2 == uniform(d1.state)
        x0 == ScaleBy(d1.value, width).whole
        y0 == ScaleBy(d2.value, height).whole
        pd0 == [pc |-> "while", randomIndex |-> 0, n |-> 0, entry |-> st, width |-> width, height |-> height, radius |-> radius, k |-> k,
                gridWidth |-> gw, gridHeight |-> gh,
                grid |-> [c \in 0 .. gw * gh - 1 |-> Null],
                points |-> <<>>, active |-> <<>>]
    IN  [state |-> d2.state, pd |-> Place(pd0, <<x0, y0>>)]

\* const randomIndex = this.uniformInt(0, active.length); the for loop begins
\* A pick whose index may be active.length itself.
PDPickInclusive(st, pd) ==
    LET d0 == uniform(st)
    IN  [state |-> d0.state,
         pd |-> [pd EXCEPT !.pc = "for",
                           !.randomIndex = uniformInt(d0.value, 0, Len(pd.active) + 1),
                           !.n = 0]]

PDPick(st, pd) ==
    LET d0 == uniform(st)
    IN  [state |-> d0.state,
         pd |-> [pd EXCEPT !.pc = "for",
                           !.randomIndex = uniformInt(d0.value, 0, Len(pd.active)),
                           !.n = 0]]

\* const [px, py] = points[active[randomIndex]]
Parent(pd) == pd.points[pd.active[pd.randomIndex + 1] + 1]

\* The locals of an iteration are gone when it ends.
EndIteration(pd) == [pd EXCEPT !.pc = "while", !.randomIndex = 0, !.n = 0]

\* A pass of the for body without the break: the loop goes on after a
\* candidate is placed.
PDAttemptNoBreak(st, pd) ==
    LET d1 == uniform(st)
        d2 == uniform(d1.state)
        c  == Candidate(pd, Parent(pd), d1.value, d2.value)
    IN  [state |-> d2.state,
         pd |-> IF isValid(pd, c[1], c[2])
                THEN [Place(pd, c) EXCEPT !.n = @ + 1]
                ELSE [pd EXCEPT !.n = @ + 1]]

\* One pass of the for body: a candidate, placed if valid (found = true;
\* break, and if (!found) is skipped), else n++.
PDAttempt(st, pd) ==
    LET d1 == uniform(st)
        d2 == uniform(d1.state)
        c  == Candidate(pd, Parent(pd), d1.value, d2.value)
    IN  [state |-> d2.state,
         pd |-> IF isValid(pd, c[1], c[2])
                THEN EndIteration(Place(pd, c))
                ELSE [pd EXCEPT !.n = @ + 1]]

\* A retirement that takes the point out of the output list as well.
PDRetireRemoving(pd) ==
    EndIteration([pd EXCEPT !.active = Splice(@, pd.randomIndex),
                            !.points = Splice(@, pd.active[pd.randomIndex + 1])])

\* if (!found) { active.splice(randomIndex, 1); }
PDRetire(pd) == EndIteration([pd EXCEPT !.active = Splice(@, pd.randomIndex)])

(***************************************************************************)
(* fuseAll.  A shape is a term: a leaf <<id>>, or <<"fuse", a, b>> for the *)
(* value a.fuse(b) returns.  u is the activation: the array passed in as   *)
(* it is now (shapes) and as it was at the call (arg), the copy            *)
(* shapes.slice(1) under iteration, and the fuse calls made so far, each   *)
(* <<receiver, argument>>.                                                 *)
(***************************************************************************)
NoShape == <<Undefined>>

Fuse(a, b) == <<"fuse", a, b>>

\* let result = shapes[0]; shapes.slice(1)
FuseAllBegin(shapes) ==
    [pc |-> "forEach", op |-> "fuseAll", arg |-> shapes, shapes |-> shapes,
     rest |-> SubSeq(shapes, 2, Len(shapes)), i |-> 0,
     result |-> IF Len(shapes) > 0 THEN shapes[1] ELSE NoShape,
     calls |-> <<>>]

\* An iteration calling shape.fuse(result), the receiver and the argument
\* exchanged.
FuseAllEachSwapped(u) ==
    LET shape == u.rest[u.i + 1]
    IN  [u EXCEPT !.result = Fuse(shape, u.result),
                  !.calls = Append(@, <<shape, u.result>>),
                  !.i = @ + 1]

\* (shape) => { result = result.fuse(shape); }
FuseAllEach(u) ==
    LET shape == u.rest[u.i + 1]
    IN  [u EXCEPT !.result = Fuse(u.result, shape),
                  !.calls = Append(@, <<u.result, shape>>),
                  !.i = @ + 1]

(***************************************************************************)
(* polarCopies.  Shapes are objects with identity: heap[ref] is the object *)
(* ref, the name it was created with and the operations applied to it.     *)
(* translate and clone return a new object; rotate changes the object it   *)
(* is called on and returns it.  Angles are exact fractions <<n, d>>.       *)
(***************************************************************************)
FullCircle == 360

RECURSIVE GCD(_, _)
GCD(a, b) == IF b = 0 THEN a ELSE GCD(b, a % b)

\* n / d in lowest terms; <<1, 0>> is Infinity.
Quotient(n, d) == LET g == GCD(n, d) IN IF g = 0 THEN <<0, 1>> ELSE <<n \div g, d \div g>>

\* i * angle
Times(i, angle) == Quotient(i * angle[1], angle[2])

translate(heap, ref, x, y) ==
    [heap |-> Append(heap, [heap[ref] EXCEPT !.ops = Append(@, <<"translate", x, y>>)]),
     ref |-> Len(heap) + 1]

\* A clone that returns the object it is called on.
cloneSame(heap, ref) == [heap |-> heap, ref |-> ref]

clone(heap, ref) == [heap |-> Append(heap, heap[ref]), ref |-> Len(heap) + 1]

rotate(heap, ref, angle) ==
    [heap |-> [heap EXCEPT ![ref].ops = Append(@, <<"rotate", angle>>)], ref |-> ref]

\* const base = shape.translate(0, radius); const angle = 360 / count;
\* const copies = []; let i = 0
PolarCopiesBegin(heap, shape, count, radius) ==
    LET base == translate(heap, shape, 0, radius)
    IN  [pc |-> "for", op |-> "polarCopies", entry |-> heap, heap |-> base.heap,
         shape |-> shape, count |-> count, radius |-> radius,
         base |-> base.ref, angle |-> Quotient(FullCircle, count),
         copies |-> <<>>, i |-> 0]

\* copies.push(base.clone().rotate(i * angle)); i++
PolarCopiesPush(u) ==
    LET c == clone(u.heap, u.base)
        r == rotate(c.heap, c.ref, Times(u.i, u.angle))
    IN  [u EXCEPT !.heap = r.heap, !.copies = Append(@, r.ref), !.i = @ + 1]

(***************************************************************************)
(* drawPoints.  The pen records the operations made on it, in order:       *)
(* <<"moveTo", p>>, <<"lineTo", p>>, <<"close">>; each method returns the  *)
(* pen.  u holds the points array as it is now (points) and as it was at   *)
(* the call (arg).                                                         *)
(***************************************************************************)
NoPoint == <<Undefined>>

PointAt(points, i) == IF i \in 0 .. Len(points) - 1 THEN points[i + 1] ELSE NoPoint

\* A start whose loop begins at index 0.
DrawPointsBeginAtZero(points) ==
    [pc |-> "lines", op |-> "drawPoints", arg |-> points, points |-> points, i |-> 0,
     operations |-> << <<"moveTo", PointAt(points, 0)>> >>]

\* let s = pen.movePointerTo(points[0]); let i = 1
DrawPointsBegin(points) ==
    [pc |-> "lines", op |-> "drawPoints", arg |-> points, points |-> points, i |-> 1,
     operations |-> << <<"moveTo", PointAt(points, 0)>> >>]

\* s = s.lineTo(points[i]); i++
DrawPointsLineTo(u) ==
    [u EXCEPT !.operations = Append(@, <<"lineTo", PointAt(u.points, u.i)>>), !.i = @ + 1]

\* s.close()
DrawPointsClose(u) ==
    [pc |-> "returned", op |-> "drawPoints", arg |-> u.arg, points |-> u.points,
     operations |-> Append(u.operations, <<"close">>)]

(***************************************************************************)
(* The state machine.  Two generator objects; each call of a method is one *)
(* step, except poissonDisc, which takes one step per candidate tried.     *)
(* JavaScript runs a call to completion: no call starts while a            *)
(* poissonDisc activation is in progress.                                  *)
(***************************************************************************)
VARIABLES
    seed,    \* seed[g]: the argument the constructor of g was given, or NoSeed
    state,   \* state[g]: this.state of generator g
    hist,    \* hist[g]: the calls made on g: the call, what it returned, and
             \*          this.state before (pre) and after (post) it
    pd,      \* pd[g]: the locals of g's running poissonDisc call (with the
             \*        state it was entered in), or Idle
    util     \* the activation of fuseAll or polarCopies, running or returned

vars == <<seed, state, hist, pd, util>>

Inst == {1, 2}

MaxCalls == 2

Idle == [pc |-> "idle"]

\* 0, 42, -42, 0xffffffff, 3.5, 2^32 + 42, -0x6d2b79f5 - 3.5, 32339094, and
\* 2463401483, the one 32-bit state whose next draw is 0
Seeds ==
    {IntNum(0), IntNum(42), IntNum(-42), Num(65535, 65535, 0), Num(0, 3, 1),
     Num(65536, 42, 0), Num(-27948, 34311, 1), IntNum(32339094),
     Num(37588, 34315, 0)}

\* values of Math.random() * 0xffffffff
Entropy == {Num(12345, 678, 1), Num(40000, 1, 0)}

Big == 2^30

UniformIntArgs == {<<0, 5>>, <<5, 6>>, <<-3, 4>>, <<Big, Big + 1>>, <<5, 5>>, <<5, 2>>, <<-3, -4>>}
ChoiceArgs == {<<>>, <<"a">>, <<"a", "b", "c">>}
GaussianArgs == {<<0, 1>>, <<7, 0>>}
PoissonArgs == {-1, 0, 1, 3}

\* <<width, height, radius, k>>
Unit == 5 * RSteps
DiscArgs ==
    {<<Unit, Unit, Unit, 2>>, <<Unit, 2 * Unit, Unit, 0>>, <<3 * Unit, 2 * Unit, Unit, 3>>,
     <<5 * Unit, 3 * Unit, 2 * Unit, 8>>, <<2 * Unit, 2 * Unit, Unit, 30>>}

Calls ==
    {<<"uniform">>}
    \cup {<<"uniformInt", a[1], a[2]>> : a \in UniformIntArgs}
    \cup {<<"choice", a>> : a \in ChoiceArgs}
    \cup {<<"gaussian", a[1], a[2]>> : a \in GaussianArgs}
    \cup {<<"poisson", a>> : a \in PoissonArgs}

DiscCalls == {<<"poissonDisc", a[1], a[2], a[3], a[4]>> : a \in DiscArgs}

Init ==
    /\ seed \in [Inst -> Seeds \cup {NoSeed}]
    /\ seed[1] = seed[2]
    /\ \E e \in [Inst -> Entropy] : state = [g \in Inst |-> Construct(seed[g], e[g])]
    /\ hist = [g \in Inst |-> <<>>]
    /\ pd = [g \in Inst |-> Idle]
    /\ util = Idle

CanCall(g) == /\ \A h \in Inst : pd[h] = Idle
              /\ Len(hist[g]) < MaxCalls

\* A return that writes the state of every generator, as one shared state
\* would be written.
ReturnShared(g, call, pre, st, value) ==
    /\ state' = [h \in Inst |-> st]
    /\ hist' = [hist EXCEPT ![g] =
                   Append(@, [call |-> call, ret |-> value, pre |-> pre, post |-> st])]

Return(g, call, pre, st, value) ==
    /\ state' = [state EXCEPT ![g] = st]
    /\ hist' = [hist EXCEPT ![g] =
                   Append(@, [call |-> call, ret |-> value, pre |-> pre, post |-> st])]

UniformCall(g) ==
    /\ CanCall(g)
    /\ LET d == uniform(state[g])
       IN  Return(g, <<"uniform">>, state[g], d.state, d.value)
    /\ UNCHANGED <<seed, pd, util>>

UniformIntCall(g, min, max) ==
    /\ CanCall(g)
    /\ LET d == uniform(state[g])
       IN  Return(g, <<"uniformInt", min, max>>, state[g], d.state, uniformInt(d.value, min, max))
    /\ UNCHANGED <<seed, pd, util>>

ChoiceCall(g, array) ==
    /\ CanCall(g)
    /\ LET d == uniform(state[g])
       IN  Return(g, <<"choice", array>>, state[g], d.state, choice(d.value, array))
    /\ UNCHANGED <<seed, pd, util>>

GaussianCall(g, mean, sd) ==
    /\ CanCall(g)
    /\ LET d == gaussian(state[g], mean, sd)
       IN  Return(g, <<"gaussian", mean, sd>>, state[g], d.state, d.value)
    /\ UNCHANGED <<seed, pd, util>>

PoissonCall(g, lambda) ==
    /\ CanCall(g)
    /\ LET d == poisson(state[g], lambda)
       IN  Return(g, <<"poisson", lambda>>, state[g], d.state, d.value)
    /\ UNCHANGED <<seed, pd, util>>

\* poissonDisc up to the main loop
PoissonDiscCall(g, width, height, radius, k) ==
    /\ CanCall(g)
    /\ LET b == PDBegin(state[g], width, height, radius, k)
       IN  /\ state' = [state EXCEPT ![g] = b.state]
           /\ pd' = [pd EXCEPT ![g] = b.pd]
    /\ UNCHANGED <<seed, hist, util>>

\* while (active.length > 0) holds: the iteration picks its active point
PoissonDiscPick(g) ==
    /\ pd[g] # Idle
    /\ pd[g].pc = "while"
    /\ Len(pd[g].active) > 0
    /\ LET it == PDPick(state[g], pd[g])
       IN  /\ state' = [state EXCEPT ![g] = it.state]
           /\ pd' = [pd EXCEPT ![g] = it.pd]
    /\ UNCHANGED <<seed, hist, util>>

\* n < k holds: one pass of the for body
PoissonDiscAttempt(g) ==
    /\ pd[g] # Idle
    /\ pd[g].pc = "for"
    /\ pd[g].n < pd[g].k
    /\ LET it == PDAttempt(state[g], pd[g])
       IN  /\ state' = [state EXCEPT ![g] = it.state]
           /\ pd' = [pd EXCEPT ![g] = it.pd]
    /\ UNCHANGED <<seed, hist, util>>

\* n < k fails with found still false: the active point is retired
PoissonDiscRetire(g) ==
    /\ pd[g] # Idle
    /\ pd[g].pc = "for"
    /\ ~(pd[g].n < pd[g].k)
    /\ pd' = [pd EXCEPT ![g] = PDRetire(pd[g])]
    /\ UNCHANGED <<seed, state, hist, util>>

\* while (active.length > 0) fails: return points
PoissonDiscReturn(g) ==
    /\ pd[g] # Idle
    /\ pd[g].pc = "while"
    /\ ~(Len(pd[g].active) > 0)
    /\ Return(g, <<"poissonDisc", pd[g].width, pd[g].height, pd[g].radius, pd[g].k>>,
              pd[g].entry, state[g], pd[g].points)
    /\ pd' = [pd EXCEPT ![g] = Idle]
    /\ UNCHANGED <<seed, util>>

Call(g, c) ==
    \/ c[1] = "uniform" /\ UniformCall(g)
    \/ c[1] = "uniformInt" /\ UniformIntCall(g, c[2], c[3])
    \/ c[1] = "choice" /\ ChoiceCall(g, c[2])
    \/ c[1] = "gaussian" /\ GaussianCall(g, c[2], c[3])
    \/ c[1] = "poisson" /\ PoissonCall(g, c[2])

DiscCall(g, c) == PoissonDiscCall(g, c[2], c[3], c[4], c[5])

\* One generator, every method but poissonDisc.
Next == \E c \in Calls : Call(1, c)

Spec == Init /\ [][Next]_vars

\* One generator, poissonDisc only.
NextPD ==
    \/ \E c \in DiscCalls : DiscCall(1, c)
    \/ PoissonDiscPick(1)
    \/ PoissonDiscAttempt(1)
    \/ PoissonDiscRetire(1)
    \/ PoissonDiscReturn(1)

\* The seeds the calls of poissonDisc are followed from.
DiscSeeds == {IntNum(0), IntNum(42), Num(0, 3, 1), IntNum(32339094)}

InitPD == Init /\ seed[1] \in DiscSeeds

SpecPD == InitPD /\ [][NextPD]_vars

\* The main loop of g is at a point it goes on from: a loop test that holds,
\* or inside the for loop.
Looping(g) == pd[g] # Idle /\ (pd[g].pc = "for" \/ Len(pd[g].active) > 0)

\* A step of the main loop of g: where Looping holds no other action of g is
\* enabled, and PoissonDiscPick, PoissonDiscAttempt and PoissonDiscRetire
\* each change pd[g].
Iterated(g) == Looping(g) /\ pd'[g] # pd[g]

\* Weak fairness of PoissonDiscPick(1) \/ PoissonDiscAttempt(1) \/
\* PoissonDiscRetire(1), with ENABLED written out as Looping: the main loop is
\* a loop of one synchronous call, it keeps running.
LoopFair == ([]<>(~Looping(1))) \/ ([]<><<Iterated(1)>>_vars)

SpecPDFair == SpecPD /\ LoopFair /\ WF_vars(PoissonDiscReturn(1))

\* Two generators given the same calls in the same order: generator 1 makes
\* any call, generator 2 repeats the calls of generator 1, at its own pace.
TwinCalls ==
    {<<"uniform">>, <<"uniformInt", 0, 5>>, <<"choice", <<"a", "b", "c">>>>,
     <<"gaussian", 0, 1>>, <<"poisson", 3>>}

TwinDiscCalls == {<<"poissonDisc", 3 * Unit, 2 * Unit, Unit, 3>>}

Repeat(g) ==
    /\ Len(hist[g]) < Len(hist[1])
    /\ LET c == hist[1][Len(hist[g]) + 1].call
       IN  \/ Call(g, c)
           \/ c[1] = "poissonDisc" /\ DiscCall(g, c)

NextTwin ==
    \/ \E c \in TwinCalls : Call(1, c)
    \/ \E c \in TwinDiscCalls : DiscCall(1, c)
    \/ Repeat(2)
    \/ \E g \in Inst : PoissonDiscPick(g)
    \/ \E g \in Inst : PoissonDiscAttempt(g)
    \/ \E g \in Inst : PoissonDiscRetire(g)
    \/ \E g \in Inst : PoissonDiscReturn(g)

SpecTwin == Init /\ [][NextTwin]_vars

\* Two generators constructed with any two explicit seeds, each drawing with
\* uniform() or sampling with poissonDisc.
PairDiscCalls == {<<"poissonDisc", 2 * Unit, Unit, Unit, 1>>}

InitPair ==
    /\ seed \in [Inst -> Seeds]
    /\ \E e \in Entropy : state = [g \in Inst |-> Construct(seed[g], e)]
    /\ hist = [g \in Inst |-> <<>>]
    /\ pd = [g \in Inst |-> Idle]
    /\ util = Idle

NextPair ==
    \/ \E g \in Inst : UniformCall(g)
    \/ \E g \in Inst : \E c \in PairDiscCalls : DiscCall(g, c)
    \/ \E g \in Inst : PoissonDiscPick(g)
    \/ \E g \in Inst : PoissonDiscAttempt(g)
    \/ \E g \in Inst : PoissonDiscRetire(g)
    \/ \E g \in Inst : PoissonDiscReturn(g)

SpecPair == InitPair /\ [][NextPair]_vars

\* The same two generators from fewer seeds: the runs that are replayed
\* call by call on a generator of its own.
SoloSeeds == {IntNum(0), IntNum(42), Num(0, 3, 1)}

InitSolo == InitPair /\ seed \in [Inst -> SoloSeeds]

SpecSolo == InitSolo /\ [][NextPair]_vars

\* Two generators that only call uniform(), from integer seeds below and
\* beyond 32 bits: 0, 42, 2^32 + 42, -42, 2^32 - 42 and 0xffffffff.
WideSeeds ==
    {IntNum(0), IntNum(42), Num(65536, 42, 0), IntNum(-42), Num(65535, 65494, 0),
     Num(65535, 65535, 0)}

InitWide ==
    /\ seed \in [Inst -> WideSeeds]
    /\ \E e \in Entropy : state = [g \in Inst |-> Construct(seed[g], e)]
    /\ hist = [g \in Inst |-> <<>>]
    /\ pd = [g \in Inst |-> Idle]
    /\ util = Idle

NextWide == \E g \in Inst : UniformCall(g)

SpecWide == InitWide /\ [][NextWide]_vars

\* Two generators constructed with the same explicit seed, each sampling
\* once with poissonDisc, the second after the first, with arguments of
\* their own: <<width, height, radius, k>>.
SweepArgs ==
    {<<2 * Unit, 5 * Unit, Unit, 2>>, <<2 * Unit, 5 * Unit, 2 * Unit, 2>>,
     <<Unit, 3 * Unit, Unit, 2>>,
     <<3 * Unit, 3 * Unit, 2 * Unit, 30>>,
     <<(7 * Unit) \div 2, (7 * Unit) \div 2, 2 * Unit, 30>>}

SweepCalls == {<<"poissonDisc", a[1], a[2], a[3], a[4]>> : a \in SweepArgs}

\* The seeds the paired samplings start from.
SweepSeeds == {IntNum(112), IntNum(42)}

InitSweep ==
    /\ \E s \in SweepSeeds : seed = [g \in Inst |-> s]
    /\ \E e \in Entropy : state = [g \in Inst |-> Construct(seed[g], e)]
    /\ hist = [g \in Inst |-> <<>>]
    /\ pd = [g \in Inst |-> Idle]
    /\ util = Idle

NextSweep ==
    \/ \E c \in SweepCalls : hist[1] = <<>> /\ DiscCall(1, c)
    \/ \E c \in SweepCalls : hist[2] = <<>> /\ hist[1] # <<>> /\ DiscCall(2, c)
    \/ \E g \in Inst : PoissonDiscPick(g)
    \/ \E g \in Inst : PoissonDiscAttempt(g)
    \/ \E g \in Inst : PoissonDiscRetire(g)
    \/ \E g \in Inst : PoissonDiscReturn(g)

SpecSweep == InitSweep /\ [][NextSweep]_vars

(***************************************************************************)
(* One generator, one call of poissonDisc, followed candidate by           *)
(* candidate: the runs on which every position of the rectangle is tested. *)
(***************************************************************************)
BlockSeeds == {IntNum(0), IntNum(42), IntNum(112)}

BlockCalls ==
    {<<"poissonDisc", 3 * Unit, 3 * Unit, Unit, 3>>,
     <<"poissonDisc", 4 * Unit, 2 * Unit, Unit, 8>>}

InitBlock ==
    /\ \E s \in BlockSeeds : seed = [g \in Inst |-> s]
    /\ \E e \in Entropy : state = [g \in Inst |-> Construct(seed[g], e)]
    /\ hist = [g \in Inst |-> <<>>]
    /\ pd = [g \in Inst |-> Idle]
    /\ util = Idle

NextBlock ==
    \/ \E c \in BlockCalls : hist[1] = <<>> /\ DiscCall(1, c)
    \/ PoissonDiscPick(1)
    \/ PoissonDiscAttempt(1)
    \/ PoissonDiscRetire(1)
    \/ PoissonDiscReturn(1)

SpecBlock == InitBlock /\ [][NextBlock]_vars

(***************************************************************************)
(* The shape utilities: one call of fuseAll or polarCopies, a step per     *)
(* iteration of its loop.  No generator is involved.                       *)
(***************************************************************************)
MaxShapes == 4
MaxCount == 5
MaxPoints == 3

ShapeIds == {"A", "B", "C"}

\* The arrays passed to fuseAll: leaves, and one array with a fused shape.
ShapeLists ==
    UNION {[1 .. n -> {<<id>> : id \in ShapeIds}] : n \in 0 .. MaxShapes}
    \cup {<<Fuse(<<"A">>, <<"B">>), <<"C">>>>}

\* The shape passed to polarCopies, fresh or already rotated.
BaseShapes ==
    {[name |-> "base", ops |-> <<>>],
     [name |-> "base", ops |-> <<<<"rotate", Quotient(90, 1)>>>>]}

\* The arrays passed to drawPoints, the empty one included.
PointLists == UNION {[1 .. n -> {<<0, 0>>, <<1, 0>>, <<1, 1>>}] : n \in 0 .. MaxPoints}

Counts == 0 .. MaxCount
Radii == {0, 10, -4}

InitShapes ==
    /\ seed = [g \in Inst |-> IntNum(42)]
    /\ state = [g \in Inst |-> Construct(seed[g], Zero)]
    /\ hist = [g \in Inst |-> <<>>]
    /\ pd = [g \in Inst |-> Idle]
    /\ util = Idle

FuseAllCall(shapes) ==
    /\ util = Idle
    /\ util' = FuseAllBegin(shapes)
    /\ UNCHANGED <<seed, state, hist, pd>>

FuseAllForEach ==
    /\ util.pc = "forEach"
    /\ util.i < Len(util.rest)
    /\ util' = FuseAllEach(util)
    /\ UNCHANGED <<seed, state, hist, pd>>

FuseAllReturn ==
    /\ util.pc = "forEach"
    /\ ~(util.i < Len(util.rest))
    /\ util' = [pc |-> "returned", op |-> "fuseAll", arg |-> util.arg, shapes |-> util.shapes,
                calls |-> util.calls, ret |-> util.result]
    /\ UNCHANGED <<seed, state, hist, pd>>

PolarCopiesCall(shape, count, radius) ==
    /\ util = Idle
    /\ util' = PolarCopiesBegin(<<shape>>, 1, count, radius)
    /\ UNCHANGED <<seed, state, hist, pd>>

PolarCopiesLoop ==
    /\ util.pc = "for"
    /\ util.i < util.count
    /\ util' = PolarCopiesPush(util)
    /\ UNCHANGED <<seed, state, hist, pd>>

PolarCopiesReturn ==
    /\ util.pc = "for"
    /\ ~(util.i < util.count)
    /\ util' = [pc |-> "returned", op |-> "polarCopies", entry |-> util.entry, heap |-> util.heap,
                shape |-> util.shape, count |-> util.count, radius |-> util.radius,
                base |-> util.base, ret |-> util.copies]
    /\ UNCHANGED <<seed, state, hist, pd>>

DrawPointsCall(points) ==
    /\ util = Idle
    /\ util' = DrawPointsBegin(points)
    /\ UNCHANGED <<seed, state, hist, pd>>

DrawPointsLoop ==
    /\ util.pc = "lines"
    /\ util.i < Len(util.points)
    /\ util' = DrawPointsLineTo(util)
    /\ UNCHANGED <<seed, state, hist, pd>>

DrawPointsReturn ==
    /\ util.pc = "lines"
    /\ ~(util.i < Len(util.points))
    /\ util' = DrawPointsClose(util)
    /\ UNCHANGED <<seed, state, hist, pd>>

NextShapes ==
    \/ \E points \in PointLists : DrawPointsCall(points)
    \/ DrawPointsLoop
    \/ DrawPointsReturn
    \/ \E shapes \in ShapeLists : FuseAllCall(shapes)
    \/ FuseAllForEach
    \/ FuseAllReturn
    \/ \E shape \in BaseShapes : \E count \in Counts : \E radius \in Radii :
           PolarCopiesCall(shape, count, radius)
    \/ PolarCopiesLoop
    \/ PolarCopiesReturn

SpecShapes == InitShapes /\ [][NextShapes]_vars

(***************************************************************************)
(* Properties.                                                             *)
(***************************************************************************)
Explicit(g) == seed[g] # NoSeed

CallsOf(g, op) == {i \in 1 .. Len(hist[g]) : hist[g][i].call[1] = op}

Range(seq) == {seq[i] : i \in 1 .. Len(seq)}

\* C1: two generators constructed with the same explicit seed and given the
\* same calls in the same order return the same result at every call, leave
\* the same state after every call, and end in the same state.
C1_Determinism ==
    (Explicit(1) /\ seed[1] = seed[2]) =>
        /\ \A i \in 1 .. Min(Len(hist[1]), Len(hist[2])) :
               (\A j \in 1 .. i : hist[1][j].call = hist[2][j].call) =>
                   /\ hist[1][i].ret = hist[2][i].ret
                   /\ hist[1][i].post = hist[2][i].post
        /\ (/\ Len(hist[1]) = Len(hist[2])
            /\ \A j \in 1 .. Len(hist[1]) : hist[1][j].call = hist[2][j].call
            /\ pd[1] = Idle /\ pd[2] = Idle) => state[1] = state[2]

C1_Witness ==
    /\ Explicit(1) /\ seed[1] = seed[2]
    /\ Len(hist[1]) >= 2 /\ Len(hist[2]) >= 2
    /\ hist[2][1].call[1] = "poissonDisc" /\ Len(hist[2][1].ret) >= 2
    /\ hist[2][2].call[1] = "gaussian"
    /\ pd[2] = Idle

\* C2: every value uniform() returns is an unsigned 32-bit integer divided by
\* 2^32, so 0 <= v < 1, from every seed (zero, negative, fractional, above
\* the 32-bit range) and every state reached from it.
C2_UniformRange ==
    \A g \in Inst : \A i \in CallsOf(g, "uniform") :
        LET v == hist[g][i].ret
        IN  v.fr = 0 /\ v.lo \in 0 .. Radix - 1 /\ v.hi \in 0 .. Radix - 1

C2_Witness ==
    /\ seed[1] = Num(-27948, 34311, 1)
    /\ Len(hist[1]) = 2
    /\ CallsOf(1, "uniform") = {1, 2}
    /\ hist[1][1].ret.hi >= Half
    /\ hist[1][2].ret.hi >= Half

\* The state after n draws from st, the additions done as the code does them.
RECURSIVE After(_, _)
After(st, n) == IF n = 0 THEN st ELSE NextState(After(st, n - 1))

\* n is an integer in the signed or in the unsigned 32-bit range
Is32Bit(n) == n.fr = 0 /\ n.hi \in -Half .. Radix - 1

\* C3: from a seed in the 32-bit range, after any number n of uniform()
\* calls the stored state is a 32-bit integer, equal to seed + n * 0x6D2B79F5
\* reduced modulo 2^32.
C3_StateWraps ==
    (Explicit(1) /\ Is32Bit(seed[1]) /\ CallsOf(1, "uniform") = 1 .. Len(hist[1])) =>
        /\ Is32Bit(state[1])
        /\ ToUint32(state[1]) = ToUint32(After(seed[1], Len(hist[1])))

\* C4: for integers a < b, uniformInt(a, b) returns an integer r with
\* a <= r < b, never b.
C4_UniformIntRange ==
    \A g \in Inst : \A i \in CallsOf(g, "uniformInt") :
        LET c == hist[g][i].call
        IN  c[2] < c[3] => hist[g][i].ret \in c[2] .. c[3] - 1

\* C5: choice(items) on a non-empty array returns an element of items, and
\* the index it reads is an integer in [0, items.length).
C5_ChoiceMember ==
    \A g \in Inst : \A i \in CallsOf(g, "choice") :
        LET items == hist[g][i].call[2]
            index == uniformInt(uniform(hist[g][i].pre).value, 0, Len(items))
        IN  Len(items) > 0 =>
                /\ index \in 0 .. Len(items) - 1
                /\ hist[g][i].ret = items[index + 1]
                /\ hist[g][i].ret \in Range(items)

C5_Witness ==
    /\ Len(hist[1]) = 2
    /\ hist[1][1].call = <<"choice", <<"a", "b", "c">>>> /\ hist[1][1].ret = "c"
    /\ hist[1][2].call = <<"choice", <<"a", "b", "c">>>> /\ hist[1][2].ret = "a"

\* The poissonDisc activations to look at: the running one and, of the
\* finished ones, their arguments and the list returned.
DiscRuns(g) ==
    {[width |-> hist[g][i].call[2], height |-> hist[g][i].call[3],
      radius |-> hist[g][i].call[4], points |-> hist[g][i].ret, running |-> FALSE] :
        i \in CallsOf(g, "poissonDisc")}
    \cup (IF pd[g] = Idle THEN {}
          ELSE {[width |-> pd[g].width, height |-> pd[g].height,
                 radius |-> pd[g].radius, points |-> pd[g].points, running |-> TRUE]})

\* C6: every point of poissonDisc, the initial one included, lies in
\* [0, width) x [0, height).
C6_PointsInBounds ==
    \A g \in Inst : \A r \in DiscRuns(g) : \A i \in 1 .. Len(r.points) :
        /\ 0 <= r.points[i][1] /\ r.points[i][1] < r.width
        /\ 0 <= r.points[i][2] /\ r.points[i][2] < r.height

C6_Witness ==
    \E r \in DiscRuns(1) :
        /\ ~r.running
        /\ Len(r.points) >= 3
        /\ \E i \in 2 .. Len(r.points) : r.points[i][1] = 0 \/ r.points[i][2] = 0

DistSq(p, q) == (p[1] - q[1]) * (p[1] - q[1]) + (p[2] - q[2]) * (p[2] - q[2])

\* C7: any two distinct points of poissonDisc are at distance >= radius, in
\* the list returned and at every step of the main loop.
C7_MinDistance ==
    \A g \in Inst : \A r \in DiscRuns(g) :
        \A i \in 1 .. Len(r.points) : \A j \in 1 .. Len(r.points) :
            i # j => DistSq(r.points[i], r.points[j]) >= r.radius * r.radius

C7_Witness ==
    \E r \in DiscRuns(1) :
        /\ r.running
        /\ Len(r.points) >= 3
        /\ \E i \in 1 .. Len(r.points) : \E j \in 1 .. Len(r.points) :
               i # j /\ DistSq(r.points[i], r.points[j]) = r.radius * r.radius

\* What an iteration of the main loop decreases: two for every cell of the
\* grid that holds no point yet, one for every active point.
Variant(p) == 2 * (p.gridWidth * p.gridHeight - Len(p.points)) + Len(p.active)

\* What every step of the main loop decreases: the variant, then the passes
\* the iteration has left.
Measure(p) == Variant(p) * (p.k + 2) + (IF p.pc = "while" THEN p.k + 1 ELSE p.k - p.n)

\* A step that ends an iteration of the main loop of generator 1.
IterationEnds == pd[1] # Idle /\ pd[1].pc = "for" /\ pd'[1] # Idle /\ pd'[1].pc = "while"

\* The iteration placed one point, which is active.
Placed ==
    /\ Len(pd'[1].points) = Len(pd[1].points) + 1
    /\ pd'[1].active = Append(pd[1].active, Len(pd[1].points))

\* The iteration retired one active point and placed none.
Retired ==
    /\ pd'[1].points = pd[1].points
    /\ Len(pd'[1].active) = Len(pd[1].active) - 1

\* C8: the main loop of poissonDisc terminates and the list is returned:
\* the number of points never exceeds the number of grid cells, every
\* iteration either places a point or retires an active one, and every step
\* of the loop decreases a measure that is never negative.
C8_Terminates ==
    /\ [](pd[1] # Idle => /\ Len(pd[1].points) <= pd[1].gridWidth * pd[1].gridHeight
                          /\ Measure(pd[1]) >= 0)
    /\ [][IterationEnds => Placed \/ Retired]_vars
    /\ [][pd[1] # Idle /\ pd'[1] # Idle => Measure(pd'[1]) < Measure(pd[1])]_vars
    /\ (pd[1] # Idle) ~> (pd[1] = Idle)

C8_Witness ==
    /\ pd[1] = Idle
    /\ \E i \in CallsOf(1, "poissonDisc") :
           /\ Len(hist[1][i].ret) >= 4
           /\ hist[1][i].call[5] > 3

\* C9: poisson(lambda) returns a non-negative integer for every lambda.
C9_PoissonNat ==
    \A g \in Inst : \A i \in CallsOf(g, "poisson") : hist[g][i].ret \in Nat

C9_Witness ==
    /\ Len(hist[1]) = 2
    /\ hist[1][1].call = <<"poisson", 3>> /\ hist[1][1].ret >= 3
    /\ hist[1][2].call = <<"poisson", -1>> /\ hist[1][2].ret = 0

\* C10: poisson(0) returns 0 and consumes exactly one uniform() draw.
C10_PoissonZero ==
    \A g \in Inst : \A i \in CallsOf(g, "poisson") :
        hist[g][i].call[2] = 0 =>
            /\ hist[g][i].ret = 0
            /\ hist[g][i].post = NextState(hist[g][i].pre)

C10_Witness ==
    /\ seed[1] = IntNum(-42)
    /\ Len(hist[1]) = 2
    /\ hist[1][1].call = <<"poisson", 0>>
    /\ hist[1][2].call = <<"poisson", 0>>
    /\ state[1] = After(seed[1], 2)
\* u = 1 - uniform() of a gaussian call entered in state st
LogArgument(st) == Complement(uniform(st).value)

\* C11: gaussian(m, 0) returns exactly m: the argument u of the logarithm is
\* in (0, 1], so z is finite, z * 0 is a zero and the sum is m.
C11_GaussianSdZero ==
    \A g \in Inst : \A i \in CallsOf(g, "gaussian") :
        LET c == hist[g][i].call
            u == LogArgument(hist[g][i].pre)
        IN  c[3] = 0 =>
                /\ u # Zero /\ u.fr = 0
                /\ u.hi \in 0 .. Radix /\ (u.hi = Radix => u.lo = 0)
                /\ hist[g][i].ret = [mean |-> c[2], sd |-> 0, z |-> <<>>]

\* gaussian(7, 0) where the first draw is 0 (u = 1), and again after it.
C11_Witness ==
    /\ seed[1] = Num(37588, 34315, 0)
    /\ Len(hist[1]) = 2
    /\ hist[1][1].call = <<"gaussian", 7, 0>>
    /\ LogArgument(hist[1][1].pre) = Num(Radix, 0, 0)
    /\ hist[1][1].ret.mean = 7
    /\ hist[1][2].call = <<"gaussian", 7, 0>>
    /\ hist[1][2].ret.mean = 7

\* C12: a gaussian call consumes exactly two draws, u from the first and v
\* from the second, and keeps nothing for the next call: the state after it
\* is the state after two uniform() calls from the state before it.
C12_GaussianTwoDraws ==
    \A g \in Inst : \A i \in CallsOf(g, "gaussian") :
        LET h  == hist[g][i]
            d1 == uniform(h.pre)
            d2 == uniform(d1.state)
        IN  /\ h.post = d2.state
            /\ h.post = After(h.pre, 2)
            /\ h.call[3] # 0 => h.ret.z = <<Complement(d1.value), d2.value>>

C12_Witness ==
    /\ Len(hist[1]) = 2
    /\ hist[1][1].call = <<"gaussian", 0, 1>>
    /\ hist[1][2].call = <<"gaussian", 0, 1>>
    /\ hist[1][2].pre = hist[1][1].post
    /\ hist[1][1].ret.z # hist[1][2].ret.z
    /\ state[1] = After(hist[1][1].pre, 4)

\* The seeds of the two generators are different numbers.
DistinctSeeds == Explicit(1) /\ Explicit(2) /\ seed[1] # seed[2]

\* The seeds agree after ToInt32: truncated toward zero, modulo 2^32.
SameInt32 == ToUint32(seed[1]) = ToUint32(seed[2])

\* Both generators have made the same first n calls, all of them op.
BothBegan(op, n) ==
    /\ Len(hist[1]) >= n /\ Len(hist[2]) >= n
    /\ \A i \in 1 .. n : hist[1][i].call[1] = op /\ hist[2][i].call = hist[1][i].call

\* The initial point of a poissonDisc call, before the model's rounding:
\* [uniform() * width, uniform() * height] as exact products.
InitialPoint(h) ==
    LET d1 == uniform(h.pre)
        d2 == uniform(d1.state)
    IN  <<ScaleBy(d1.value, h.call[2]), ScaleBy(d2.value, h.call[3])>>

C14_SeedVerbatim ==
    \A g \in Inst : Explicit(g) =>
        /\ (hist[g] = <<>> /\ pd[g] = Idle) => state[g] = seed[g]
        /\ Len(hist[g]) >= 1 => hist[g][1].pre = seed[g]

\* -0x6d2b79f5 - 3.5 is negative, fractional and becomes -3.5 after a draw.
C14_Witness ==
    /\ seed[1] = Num(-27948, 34311, 1)
    /\ hist[2] = <<>> /\ state[2] = Num(-27948, 34311, 1)
    /\ Len(hist[1]) = 1 /\ hist[1][1].call[1] = "uniform"
    /\ hist[1][1].pre = Num(-27948, 34311, 1)
    /\ state[1] = Num(-1, Radix - 4, 1)

\* Both generators have returned from their poissonDisc call.
BothSampled == hist[1] # <<>> /\ hist[2] # <<>>

\* The arguments <<width, height, radius, k>> and the result of g's call.
ArgsOf(g) == SubSeq(hist[g][1].call, 2, 5)
PointsOf(g) == hist[g][1].ret

\* g has entered its first poissonDisc call; its arguments, and the points
\* placed so far or returned.
Sampling(g) == hist[g] # <<>> \/ pd[g] # Idle
SampleArgs(g) ==
    IF hist[g] # <<>> THEN ArgsOf(g)
    ELSE <<pd[g].width, pd[g].height, pd[g].radius, pd[g].k>>
SamplePoints(g) == IF hist[g] # <<>> THEN PointsOf(g) ELSE pd[g].points

\* gridWidth * gridHeight for an area and a radius
Cells(width, height, radius) == CellCount(width, radius) * CellCount(height, radius)

FirstPoint(st, width, height) ==
    <<ScaleBy(uniform(st).value, width).whole,
      ScaleBy(uniform(uniform(st).state).value, height).whole>>

\* C17: every poissonDisc call has at least one point from its first step on
\* and in its result, and the first point is the initial point drawn from
\* the first two outputs, whatever the area, the radius and k are.
C17_NonEmpty ==
    \A g \in Inst :
        /\ \A i \in CallsOf(g, "poissonDisc") :
               /\ Len(hist[g][i].ret) >= 1
               /\ hist[g][i].ret[1]
                      = FirstPoint(hist[g][i].pre, hist[g][i].call[2], hist[g][i].call[3])
        /\ pd[g] # Idle =>
               /\ Len(pd[g].points) >= 1
               /\ pd[g].points[1] = FirstPoint(pd[g].entry, pd[g].width, pd[g].height)

\* A call on an area no wider than the radius returned the initial point
\* alone, and a call with k = 0 did.
C17_Witness ==
    /\ \E i \in CallsOf(1, "poissonDisc") :
           /\ hist[1][i].call[2] <= hist[1][i].call[4]
           /\ hist[1][i].call[5] > 0
           /\ Len(hist[1][i].ret) = 1
    /\ \E i \in CallsOf(1, "poissonDisc") :
           /\ hist[1][i].call[5] = 0
           /\ Len(hist[1][i].ret) = 1

\* C18 as stated: for integers max <= min, uniformInt(min, max) returns a
\* value strictly less than min.
C18_BelowMin ==
    \A g \in Inst : \A i \in CallsOf(g, "uniformInt") :
        LET c == hist[g][i].call
        IN  c[3] <= c[2] => hist[g][i].ret < c[2]

\* C18, amended: for integers max <= min, uniformInt(min, max) returns an
\* integer in [max, min], unclamped: it is min when max = min, and for
\* max < min it is min exactly when the draw is 0 and below min otherwise.
C18_AtOrBelowMin ==
    \A g \in Inst : \A i \in CallsOf(g, "uniformInt") :
        LET c == hist[g][i].call
            draw == uniform(hist[g][i].pre).value
        IN  c[3] <= c[2] =>
                /\ hist[g][i].ret \in c[3] .. c[2]
                /\ c[3] = c[2] => hist[g][i].ret = c[2]
                /\ c[3] < c[2] => (hist[g][i].ret = c[2] <=> draw = Zero)

\* A reversed range returned min on a draw of 0 and then a value below min.
C18_Witness ==
    /\ Len(hist[1]) = 2
    /\ hist[1][1].call = <<"uniformInt", 5, 2>> /\ hist[1][1].ret = 5
    /\ hist[1][2].call = <<"uniformInt", 5, 2>> /\ hist[1][2].ret < 5

\* The value of fuseAll on the first n elements: ((s0.fuse(s1)).fuse(s2))...
RECURSIVE LeftFold(_, _)
LeftFold(shapes, n) ==
    IF n = 1 THEN shapes[1] ELSE Fuse(LeftFold(shapes, n - 1), shapes[n])

FuseAllActive == util.pc \in {"forEach", "returned"} /\ util.op = "fuseAll"

\* C19: fuseAll on a non-empty list is a left fold in list order: the i-th
\* fuse call is made on the result so far with shapes[i] as its argument,
\* length - 1 calls are made by the return, the result is
\* ((s0.fuse(s1)).fuse(s2))..., a single element is returned without a call,
\* and the list passed in is never modified.
C19_LeftFold ==
    (FuseAllActive /\ Len(util.arg) > 0) =>
        /\ util.shapes = util.arg
        /\ \A i \in 1 .. Len(util.calls) :
               util.calls[i] = <<LeftFold(util.arg, i), util.arg[i + 1]>>
        /\ util.pc = "forEach" =>
               /\ Len(util.calls) = util.i
               /\ util.i <= Len(util.arg) - 1
               /\ util.result = LeftFold(util.arg, util.i + 1)
        /\ util.pc = "returned" =>
               /\ Len(util.calls) = Len(util.arg) - 1
               /\ util.ret = LeftFold(util.arg, Len(util.arg))
               /\ Len(util.arg) = 1 => util.ret = util.arg[1] /\ util.calls = <<>>

\* fuseAll returned on four shapes after three calls, the last on (A+B)+A.
C19_Witness ==
    /\ util.pc = "returned" /\ util.op = "fuseAll"
    /\ util.arg = <<<<"A">>, <<"B">>, <<"A">>, <<"C">>>>
    /\ Len(util.calls) = 3
    /\ util.calls[3] = <<Fuse(Fuse(<<"A">>, <<"B">>), <<"A">>), <<"C">>>>
    /\ util.ret = Fuse(Fuse(Fuse(<<"A">>, <<"B">>), <<"A">>), <<"C">>)

PolarCopiesActive == util.pc \in {"for", "returned"} /\ util.op = "polarCopies"

\* The copies made so far, or returned.
CopiesOf(u) == IF u.pc = "returned" THEN u.ret ELSE u.copies

\* C20: polarCopies(shape, count, radius) for an integer count >= 1 returns
\* exactly count copies, pairwise distinct objects that are neither the
\* shape passed in nor each other; copy i is the shape translated by
\* (0, radius) and rotated by i * 360 / count, and the shape passed in is
\* as it was.
C20_PolarCopies ==
    (PolarCopiesActive /\ util.count >= 1) =>
        LET copies == CopiesOf(util)
            given == util.entry[util.shape]
        IN  /\ util.heap[util.shape] = given
            /\ util.pc = "returned" => Len(copies) = util.count
            /\ \A i \in 1 .. Len(copies) :
                   /\ copies[i] # util.shape
                   /\ \A j \in 1 .. Len(copies) : copies[i] = copies[j] => i = j
                   /\ util.heap[copies[i]] =
                          [name |-> given.name,
                           ops |-> given.ops \o
                                   << <<"translate", 0, util.radius>>,
                                      <<"rotate", Quotient((i - 1) * FullCircle, util.count)>> >>]

\* Five copies of a shape that had been rotated before, the last at 288.
C20_Witness ==
    /\ util.pc = "returned" /\ util.op = "polarCopies"
    /\ util.count = 5 /\ util.radius = 10
    /\ util.entry[util.shape].ops # <<>>
    /\ Len(util.ret) = 5
    /\ util.heap[util.ret[5]].ops[3] = <<"rotate", <<288, 1>>>>

DrawPointsActive == util.pc \in {"lines", "returned"} /\ util.op = "drawPoints"

\* C21: drawPoints on n >= 1 points makes n + 1 pen operations:
\* movePointerTo(points[0]) first, lineTo(points[i]) for i = 1 .. n - 1 in
\* list order, close() last and only at the end; the points are as passed.
C21_PenOperations ==
    (DrawPointsActive /\ Len(util.arg) >= 1) =>
        LET ops == util.operations
            n == Len(util.arg)
            lines == IF util.pc = "returned" THEN Len(ops) - 2 ELSE Len(ops) - 1
        IN  /\ util.points = util.arg
            /\ ops[1] = <<"moveTo", util.arg[1]>>
            /\ lines <= n - 1
            /\ \A i \in 1 .. lines : ops[i + 1] = <<"lineTo", util.arg[i + 1]>>
            /\ util.pc = "lines" => lines = util.i - 1
            /\ util.pc = "returned" =>
                   /\ Len(ops) = n + 1
                   /\ ops[n + 1] = <<"close">>

\* drawPoints returned on three points, and on one point.
C21_Witness ==
    /\ util.pc = "returned" /\ util.op = "drawPoints"
    /\ util.arg = <<<<0, 0>>, <<1, 0>>, <<1, 1>>>>
    /\ util.operations =
           << <<"moveTo", <<0, 0>>>>, <<"lineTo", <<1, 0>>>>, <<"lineTo", <<1, 1>>>>, <<"close">> >>

\* Some placed point, wherever it is, is closer than radius to (x, y).
CloseToPlaced(p, x, y) == \E n \in 1 .. Len(p.points) : TooClose(p, x, y, p.points[n])

\* The cell distance along the axes between (x, y) and a placed point.
CellsApart(p, x, y, pt) ==
    Max(Max(CellOf(x, p.radius) - CellOf(pt[1], p.radius),
            CellOf(pt[1], p.radius) - CellOf(x, p.radius)),
        Max(CellOf(y, p.radius) - CellOf(pt[2], p.radius),
            CellOf(pt[2], p.radius) - CellOf(y, p.radius)))

\* C22: at every step of poissonDisc, every position inside the rectangle
\* is rejected by the search of the clamped 5 x 5 block exactly when some
\* placed point anywhere is at squared distance < radius^2 from it.
C22_LocalIsGlobal ==
    \A g \in Inst :
        pd[g] # Idle =>
            \A x \in 0 .. pd[g].width - 1 : \A y \in 0 .. pd[g].height - 1 :
                ~isValid(pd[g], x, y) <=> CloseToPlaced(pd[g], x, y)

\* A position whose only close points lie two cells away, on the rim of
\* the block, while four points or more are placed.
C22_Witness ==
    \E g \in Inst :
        /\ pd[g] # Idle
        /\ Len(pd[g].points) >= 4
        /\ \E x \in 0 .. pd[g].width - 1 : \E y \in 0 .. pd[g].height - 1 :
               /\ CloseToPlaced(pd[g], x, y)
               /\ \A n \in 1 .. Len(pd[g].points) :
                      TooClose(pd[g], x, y, pd[g].points[n])
                          => CellsApart(pd[g], x, y, pd[g].points[n]) = 2

\* The column and the row of the cell a point lies in.
Column(p, pt) == CellOf(pt[1], p.radius)
Row(p, pt) == CellOf(pt[2], p.radius)

\* C23: at every step of poissonDisc the cell of every placed point,
\* floor(x / cellSize) + floor(y / cellSize) * gridWidth, lies inside the
\* grid of gridWidth * gridHeight cells and holds the index of that point,
\* so no entry was overwritten and no two points share a cell; every
\* other cell is empty.
C23_GridConsistent ==
    \A g \in Inst :
        pd[g] # Idle =>
            LET p == pd[g]
            IN  /\ DOMAIN p.grid = 0 .. p.gridWidth * p.gridHeight - 1
                /\ \A n \in 1 .. Len(p.points) :
                       /\ Column(p, p.points[n]) \in 0 .. p.gridWidth - 1
                       /\ Row(p, p.points[n]) \in 0 .. p.gridHeight - 1
                       /\ p.grid[Column(p, p.points[n]) + Row(p, p.points[n]) * p.gridWidth]
                              = n - 1
                /\ \A c \in DOMAIN p.grid :
                       p.grid[c] # Null =>
                           /\ p.grid[c] \in 0 .. Len(p.points) - 1
                           /\ Column(p, p.points[p.grid[c] + 1])
                                  + Row(p, p.points[p.grid[c] + 1]) * p.gridWidth = c

\* Five points or more on a grid wider than high, one of them beyond the
\* first row and the first column.
C23_Witness ==
    \E g \in Inst :
        /\ pd[g] # Idle
        /\ pd[g].gridWidth > pd[g].gridHeight
        /\ Len(pd[g].points) >= 5
        /\ \E n \in 1 .. Len(pd[g].points) :
               Column(pd[g], pd[g].points[n]) >= 1 /\ Row(pd[g], pd[g].points[n]) >= 1

\* The candidate the next pass of g's for loop tries.
NextCandidate(g) ==
    LET d1 == uniform(state[g])
    IN  Candidate(pd[g], Parent(pd[g]), d1.value, uniform(d1.state).value)

\* seq without its element at the 0-based position at.
Without(seq, at) ==
    [i \in 1 .. Len(seq) - 1 |-> IF i <= at THEN seq[i] ELSE seq[i + 1]]

\* A step of g inside an iteration of the main loop: a pass that finds its
\* candidate invalid changes neither list and the iteration goes on; a pass
\* that finds it valid appends that one point to both lists and ends the
\* iteration; after k invalid candidates the chosen parent, and nothing
\* else, leaves the active list, no point is placed and nothing is drawn.
IterationStep(g) ==
    (pd[g] # Idle /\ pd[g].pc = "for" /\ pd'[g] # pd[g]) =>
        IF pd[g].n < pd[g].k
        THEN IF isValid(pd[g], NextCandidate(g)[1], NextCandidate(g)[2])
             THEN /\ pd'[g].pc = "while"
                  /\ pd'[g].points = Append(pd[g].points, NextCandidate(g))
                  /\ pd'[g].active = Append(pd[g].active, Len(pd[g].points))
             ELSE /\ pd'[g].pc = "for"
                  /\ pd'[g].n = pd[g].n + 1
                  /\ pd'[g].randomIndex = pd[g].randomIndex
                  /\ pd'[g].points = pd[g].points
                  /\ pd'[g].active = pd[g].active
        ELSE /\ pd'[g].pc = "while"
             /\ pd'[g].points = pd[g].points
             /\ pd'[g].active = Without(pd[g].active, pd[g].randomIndex)
             /\ state'[g] = state[g]

\* C24: each iteration of the main loop of poissonDisc either places
\* exactly one point, the first valid candidate among at most k, adds it
\* to the active list, keeps the parent active and tries no further
\* candidate, or, when none of the k candidates is valid, removes exactly
\* the chosen parent from the active list and places nothing.
C24_IterationOutcome == [][\A g \in Inst : IterationStep(g)]_vars

\* In the middle of an iteration, after an invalid candidate, with points
\* placed and points retired before.
C24_Witness ==
    /\ pd[1] # Idle
    /\ pd[1].pc = "for" /\ pd[1].n >= 1
    /\ Len(pd[1].points) >= 3
    /\ Len(pd[1].active) < Len(pd[1].points)

\* seq is an initial part of longer.
IsPrefix(seq, longer) == Len(seq) <= Len(longer) /\ SubSeq(longer, 1, Len(seq)) = seq

\* C25: the output list of poissonDisc is append-only: a step of the call
\* leaves every placed point at its position with its coordinates, a
\* retirement removes nothing from the list, the list returned is the list
\* as placed, and its first element is the initial point.
C25_AppendOnly ==
    /\ [][\A g \in Inst :
            pd[g] # Idle =>
                /\ pd'[g] # Idle => IsPrefix(pd[g].points, pd'[g].points)
                /\ (pd'[g] # Idle /\ Len(pd'[g].active) < Len(pd[g].active))
                       => pd'[g].points = pd[g].points
                /\ pd'[g] = Idle => hist'[g][Len(hist'[g])].ret = pd[g].points]_vars
    /\ [](\A g \in Inst : \A i \in CallsOf(g, "poissonDisc") :
              hist[g][i].ret[1]
                  = FirstPoint(hist[g][i].pre, hist[g][i].call[2], hist[g][i].call[3]))

\* The initial point has been retired and is still the first of four
\* points or more.
C25_Witness ==
    /\ pd[1] # Idle
    /\ Len(pd[1].points) >= 4
    /\ \A a \in 1 .. Len(pd[1].active) : pd[1].active[a] # 0
    /\ pd[1].points[1] = FirstPoint(pd[1].entry, pd[1].width, pd[1].height)

\* The number n <= left of uniform() calls that take the state st to post,
\* or Null when there is none.
RECURSIVE Draws(_, _, _)
Draws(st, post, left) ==
    IF st = post THEN 0
    ELSE IF left = 0 THEN Null
    ELSE LET n == Draws(NextState(st), post, left - 1)
         IN  IF n = Null THEN Null ELSE n + 1

\* The most draws a poissonDisc call can make: two for the initial point,
\* then at most two iterations per grid cell, each one draw for the index
\* and two per candidate.
MostDraws(call) == 2 + 2 * Cells(call[2], call[3], call[4]) * (1 + 2 * call[5])

\* C26: the derived operations change the state only by calls of
\* uniform(): after uniformInt or choice the state is the state after one
\* uniform() call from the state before, after poisson and after
\* poissonDisc it is the state after n >= 1 uniform() calls (for poisson,
\* one more than the value returned); each step inside poissonDisc makes
\* no, one or two such calls, and a call starts from the state the
\* previous one left.
C26_StateOnlyByUniform ==
    /\ [](\A g \in Inst : \A i \in 1 .. Len(hist[g]) :
              LET h == hist[g][i]
              IN  /\ h.call[1] \in {"uniformInt", "choice"} => h.post = After(h.pre, 1)
                  /\ h.call[1] = "poisson" =>
                         /\ h.ret + 1 >= 1
                         /\ h.post = After(h.pre, h.ret + 1)
                  /\ h.call[1] = "poissonDisc" =>
                         Draws(h.pre, h.post, MostDraws(h.call)) >= 2
                  /\ i > 1 => h.pre = hist[g][i - 1].post)
    /\ [][\A g \in Inst :
            /\ (pd[g] = Idle /\ pd'[g] # Idle) =>
                   pd'[g].entry = state[g] /\ state'[g] = After(state[g], 2)
            /\ (pd[g] # Idle /\ pd'[g] # Idle) =>
                   state'[g] \in {state[g], After(state[g], 1), After(state[g], 2)}
            /\ (pd[g] # Idle /\ pd'[g] = Idle) =>
                   /\ state'[g] = state[g]
                   /\ hist'[g][Len(hist'[g])].pre = pd[g].entry
                   /\ hist'[g][Len(hist'[g])].post = state[g]
            /\ (pd[g] = Idle /\ pd'[g] = Idle /\ hist'[g] # hist[g]) =>
                   /\ hist'[g][Len(hist'[g])].pre = state[g]
                   /\ hist'[g][Len(hist'[g])].post = state'[g]
            /\ (pd[g] = Idle /\ pd'[g] = Idle /\ hist'[g] = hist[g]) =>
                   state'[g] = state[g]]_vars

\* A generator has returned from poisson with a value of 2 or more, then
\* from poissonDisc with three points or more.
C26_Witness ==
    /\ Len(hist[1]) = 2
    /\ hist[1][1].call[1] = "poisson" /\ hist[1][1].ret >= 2
    /\ hist[1][2].call[1] = "poissonDisc" /\ Len(hist[1][2].ret) >= 3
    /\ Draws(hist[1][1].pre, hist[1][2].post, MostDraws(hist[1][2].call) + 3) >= 9

\* poissonDisc run to its return from the activation p in state st, with
\* nothing else running.
RECURSIVE DiscAlone(_, _)
DiscAlone(st, p) ==
    IF p.pc = "while"
    THEN IF Len(p.active) > 0
         THEN LET it == PDPick(st, p) IN DiscAlone(it.state, it.pd)
         ELSE [state |-> st, value |-> p.points]
    ELSE IF p.n < p.k
         THEN LET it == PDAttempt(st, p) IN DiscAlone(it.state, it.pd)
         ELSE DiscAlone(st, PDRetire(p))

\* What a call returns, and the state it leaves, on a generator in state st
\* that is run alone.
CallAlone(st, call) ==
    IF call[1] = "uniform" THEN uniform(st)
    ELSE LET b == PDBegin(st, call[2], call[3], call[4], call[5])
         IN  DiscAlone(b.state, b.pd)

\* The state of g before its i-th call, had g been run alone on its calls.
RECURSIVE StateAlone(_, _)
StateAlone(g, i) ==
    IF i = 1 THEN seed[g]
    ELSE CallAlone(StateAlone(g, i - 1), hist[g][i - 1].call).state

\* What belongs to generator g.
Own(g) == <<state[g], hist[g], pd[g]>>

\* C27: two generators, each with its own seed, their calls interleaved in
\* every order: every value a generator has returned is the value it
\* returns at that call when run alone, and a step of one generator leaves
\* the state, the results and the running call of the other as they were.
C27_Independent ==
    /\ [](\A g \in Inst : \A i \in 1 .. Len(hist[g]) :
              LET alone == CallAlone(StateAlone(g, i), hist[g][i].call)
              IN  hist[g][i].ret = alone.value /\ hist[g][i].post = alone.state)
    /\ [][\A g \in Inst : \A h \in Inst :
            (g # h /\ Own(g)' # Own(g)) => Own(h)' = Own(h)]_vars

\* Generators with different seeds have each made a uniform() call and a
\* poissonDisc call, in opposite orders.
C27_Witness ==
    /\ seed[1] # seed[2]
    /\ Len(hist[1]) = 2 /\ Len(hist[2]) = 2
    /\ hist[1][1].call[1] = "uniform" /\ hist[1][2].call[1] = "poissonDisc"
    /\ hist[2][1].call[1] = "poissonDisc" /\ hist[2][2].call[1] = "uniform"
    /\ Len(hist[1][2].ret) + Len(hist[2][1].ret) >= 3

\* C28: at every step of the main loop of poissonDisc the active list holds
\* pairwise distinct indices of placed points, the index picked by
\* uniformInt(0, active.length) is in [0, active.length), and the loop is
\* left only with the active list empty.
C28_ActiveSet ==
    /\ [](\A g \in Inst :
              pd[g] # Idle =>
                  /\ \A a \in 1 .. Len(pd[g].active) :
                         /\ pd[g].active[a] \in 0 .. Len(pd[g].points) - 1
                         /\ \A b \in 1 .. Len(pd[g].active) :
                                pd[g].active[a] = pd[g].active[b] => a = b
                  /\ pd[g].pc = "for" =>
                         pd[g].randomIndex \in 0 .. Len(pd[g].active) - 1)
    /\ [][\A g \in Inst :
            (pd[g] # Idle /\ pd'[g] = Idle) => pd[g].active = <<>>]_vars

\* The third or a later entry of the active list is picked, the initial
\* point having been retired.
C28_Witness ==
    /\ pd[1] # Idle
    /\ pd[1].pc = "for"
    /\ pd[1].randomIndex >= 2
    /\ pd[1].active[1] # 0

\* How many outputs ahead of every state the two generators are compared.
DrawDepth == 6

IsInteger(x) == x.fr = 0

\* An integer reduced modulo 2^32.
Wrap(x) == Num(x.hi % Radix, x.lo, 0)

\* The state of the reference generator, which wraps its state to 32 bits
\* after every step, n steps after st; and its n-th output.
RECURSIVE RefState(_, _)
RefState(st, n) == IF n = 0 THEN Wrap(st) ELSE Wrap(NumAdd(RefState(st, n - 1), Increment))
RefOutput(st, n) == Mix3(Mix2(Mix1(RefState(st, n))))

\* The calls of g up to the i-th are all uniform().
OnlyUniform(g, i) == \A j \in 1 .. i : hist[g][j].call[1] = "uniform"

\* C29: uniform() depends on the stored state only through its value
\* modulo 2^32: from an integer seed, the n-th output of the generator as
\* coded, whose state grows without wrapping, is the n-th output of the
\* reference generator that wraps its state after every step, for the
\* calls made and for DrawDepth outputs ahead of every state reached; and
\* generators whose integer seeds are congruent modulo 2^32 return the same
\* outputs.
C29_OnlyLow32Bits ==
    /\ \A g \in Inst :
           IsInteger(seed[g]) =>
               /\ \A i \in 1 .. Len(hist[g]) :
                      OnlyUniform(g, i) => hist[g][i].ret = RefOutput(seed[g], i)
               /\ pd[g] = Idle =>
                      \A n \in 1 .. DrawDepth :
                          uniform(After(state[g], n - 1)).value = RefOutput(state[g], n)
    /\ (IsInteger(seed[1]) /\ IsInteger(seed[2]) /\ Wrap(seed[1]) = Wrap(seed[2])) =>
           \A i \in 1 .. Min(Len(hist[1]), Len(hist[2])) :
               (OnlyUniform(1, i) /\ OnlyUniform(2, i)) => hist[1][i].ret = hist[2][i].ret

\* Two calls of uniform() each from the seeds 42 and 2^32 + 42: the stored
\* states differ and are beyond 32 bits, the outputs are those of the
\* reference generator.
C29_Witness ==
    /\ seed[1] = IntNum(42) /\ seed[2] = Num(Radix, 42, 0)
    /\ Len(hist[1]) = 2 /\ Len(hist[2]) = 2
    /\ OnlyUniform(1, 2) /\ OnlyUniform(2, 2)
    /\ state[1] # state[2]
    /\ state[2].hi >= Radix
    /\ hist[2][2].ret = RefOutput(IntNum(42), 2)

\* The calls of g that are choice([]).
EmptyChoices(g) == {i \in CallsOf(g, "choice") : hist[g][i].call[2] = <<>>}

\* C30: choice([]) does not signal a failure: it makes exactly one uniform()
\* draw, the index it computes is 0, it returns undefined as an ordinary
\* value, and the generator is left in the state of one ordinary draw, from
\* which the next call proceeds.
C30_EmptyChoice ==
    \A g \in Inst : \A i \in EmptyChoices(g) :
        LET drawn == uniform(hist[g][i].pre)
        IN  /\ hist[g][i].post = drawn.state
            /\ hist[g][i].post = After(hist[g][i].pre, 1)
            /\ uniformInt(drawn.value, 0, 0) = 0
            /\ hist[g][i].ret = Undefined
            /\ i < Len(hist[g]) => hist[g][i + 1].pre = hist[g][i].post
            /\ i = Len(hist[g]) => state[g] = hist[g][i].post

\* choice([]) returned undefined, and the next call, a choice among three
\* elements, returned one of them.
C30_Witness ==
    /\ Len(hist[1]) = 2
    /\ hist[1][1].call = <<"choice", <<>>>> /\ hist[1][1].ret = Undefined
    /\ hist[1][2].call = <<"choice", <<"a", "b", "c">>>>
    /\ hist[1][2].ret \in {"a", "b", "c"}
    /\ hist[1][2].pre = After(hist[1][1].pre, 1)
====
